---- MODULE Spec2Model ----
(***************************************************************************)
(* Model of dishes/create_dish.py (create_dish, resize_and_center, main)   *)
(* and of the identical create_dish in dishes/combine.py.                  *)
(*                                                                         *)
(* An image is a record [src, w, h, layers]: a source raster is named by   *)
(* src and has no layers; a saved canvas has src = "canvas" and the list   *)
(* of pastes that produced it.  Pixels are not interpreted: two images are *)
(* equal when they were built the same way from the same sources.          *)
(***************************************************************************)
EXTENDS Integers, Sequences, FiniteSets, TLC

\* ---------------------------------------------------------------- bounds
MaxArgToppings == 4   \* longest topping_paths list a caller passes
MaxCalls == 2         \* invocations with the same arguments

\* ------------------------------------------------------- program constants
CanvasSide == 1024                                   \* canvas_size
MaxToppingLayers == 3                                \* topping_paths[:3]
sizes == [bowl |-> 80, noodle |-> 60, topping |-> 40] \* percent of canvas
offsets == << <<0, -30>>, <<-40, 25>>, <<40, 25>> >>

\* ------------------------------------------------------------ file system
InPaths  == {"a.png", "b.png", "missing.png"}
OutPaths == {"out.png", "a.png", "ro/out.png"}
Paths    == InPaths \cup OutPaths

Absent == [src |-> "absent", w |-> 0, h |-> 0, layers |-> <<>>]
SourceImage(s, w, h) == [src |-> s, w |-> w, h |-> h, layers |-> <<>>]

\* the disk before the first invocation
InitialDisk ==
    [p \in Paths |->
        CASE p = "a.png" -> SourceImage("A", 512, 512)
          [] p = "b.png" -> SourceImage("B", 2048, 1000)
          [] OTHER       -> Absent]

\* open(path, "w+b") inside Image.save fails on a read-only directory
Writable(p) == p # "ro/out.png"

Min(a, b) == IF a < b THEN a ELSE b

\* all sequences over S of length 0..n
RECURSIVE SeqsUpTo(_, _)
SeqsUpTo(S, n) ==
    IF n = 0 THEN {<<>>}
    ELSE LET shorter == SeqsUpTo(S, n - 1)
         IN shorter \cup {Append(s, x) : s \in {t \in shorter : Len(t) = n - 1}, x \in S}

\* ------------------------------------------------------------ pure helpers
\* Image.new('RGBA', canvas_size, (255, 255, 255, 0))
NewCanvas == [src |-> "canvas", w |-> CanvasSide, h |-> CanvasSide, layers |-> <<>>]

\* variant: round() instead of int()
NewSize_round(scale) == (CanvasSide * scale + 50) \div 100

\* int(canvas_size[0] * scale): the scale is a percentage, and the float
\* products 819.2, 614.4, 409.6 truncate to the same integers as the
\* exact quotient
NewSize(scale) == (CanvasSide * scale) \div 100

\* variant: canvas_size[0] - new_size // 2, the parentheses forgotten
resize_and_center_prec(img, scale) ==
    LET new_size == NewSize(scale)
        x == CanvasSide - (new_size \div 2)
        y == CanvasSide - (new_size \div 2)
    IN [img |-> [of |-> img, w |-> new_size, h |-> new_size], pos |-> <<x, y>>]

\* resize_and_center(img, scale): the resized image and its centred corner
resize_and_center(img, scale) ==
    LET new_size == NewSize(scale)
        x == (CanvasSide - new_size) \div 2
        y == (CanvasSide - new_size) \div 2
    IN [img |-> [of |-> img, w |-> new_size, h |-> new_size], pos |-> <<x, y>>]

\* variant: the table indexed from the topping's ordinal, one too far
OffsetFor_shifted(i) == IF i + 1 < Len(offsets) THEN offsets[i + 2] ELSE <<0, 0>>

\* offsets[i] if i < len(offsets) else (0, 0), with i counted from 0
OffsetFor(i) == IF i < Len(offsets) THEN offsets[i + 1] ELSE <<0, 0>>

\* topping_pos = (base_pos[0] + offset_x, base_pos[1] + offset_y)
ToppingPos(base_pos, i) ==
    <<base_pos[1] + OffsetFor(i)[1], base_pos[2] + OffsetFor(i)[2]>>

\* variant: topping_paths[:4]
ToppingSlice_four(tp) == SubSeq(tp, 1, Min(MaxToppingLayers + 1, Len(tp)))

\* topping_paths[:3]
ToppingSlice(tp) == SubSeq(tp, 1, Min(MaxToppingLayers, Len(tp)))

\* final_image.paste(im, pos, im): the canvas keeps its size
Paste(canvas, im, pos) ==
    [canvas EXCEPT !.layers = Append(@, [img |-> im, pos |-> pos])]

\* variant: print(..., file=sys.stderr)
ErrorStream_stderr == "stderr"

\* except FileNotFoundError / except Exception: print(...) writes to stdout
ErrorStream == "stdout"
\* sys.exit(1)
ErrorExitCode == 1

VARIABLES
    mode,          \* "direct": create_dish called by a caller; "cli": main()
    bowl_path, noodle_path, output_path,
    argv_toppings, \* the toppings as given by the caller / command line
    topping_paths, \* the topping_paths argument create_dish receives
    pc,            \* position in main / create_dish
    i,             \* loop index of the toppings loop
    final_image,   \* the canvas
    pastes,        \* pastes done by this invocation, in order
    opened,        \* Image.open calls of this invocation, in order
    writes,        \* paths written by this invocation, in order
    exc,           \* exception raised by create_dish, "none" if none
    exit_code,     \* <<>> while the process runs, <<c>> after exit
    stdout, stderr,
    fs,            \* the disk
    fs0,           \* the disk when this invocation started
    calls,         \* number of this invocation, from 1
    first_out      \* contents of output_path after the first invocation

vars == <<mode, bowl_path, noodle_path, output_path, argv_toppings,
          topping_paths, pc, i, final_image, pastes, opened, writes, exc,
          exit_code, stdout, stderr, fs, fs0, calls, first_out>>

args == <<mode, bowl_path, noodle_path, output_path, argv_toppings>>

Init ==
    /\ mode \in {"direct", "cli"}
    /\ bowl_path \in InPaths
    /\ noodle_path \in InPaths
    /\ output_path \in OutPaths
    /\ argv_toppings \in SeqsUpTo(InPaths, MaxArgToppings)
    /\ topping_paths = argv_toppings
    /\ pc = IF mode = "cli" THEN "parse_args" ELSE "create_dish"
    /\ i = 0
    /\ final_image = NewCanvas
    /\ pastes = <<>>
    /\ opened = <<>>
    /\ writes = <<>>
    /\ exc = "none"
    /\ exit_code = <<>>
    /\ stdout = <<>>
    /\ stderr = <<>>
    /\ fs = InitialDisk
    /\ fs0 = InitialDisk
    /\ calls = 1
    /\ first_out = Absent

\* an exception leaves create_dish: to the caller, or to main's try block
Raised == IF mode = "cli" THEN "except" ELSE "propagated"

\* parser.parse_args(): nargs='+' rejects an empty toppings list
ParseArgs ==
    /\ pc = "parse_args"
    /\ IF Len(argv_toppings) = 0
       THEN /\ stderr' = Append(stderr, "usage")
            /\ exit_code' = <<2>>
            /\ pc' = "exited"
       ELSE /\ pc' = "validate"
            /\ UNCHANGED <<stderr, exit_code>>
    /\ UNCHANGED <<args, topping_paths, i, final_image, pastes, opened,
                   writes, exc, stdout, fs, fs0, calls, first_out>>

\* if len(args.toppings) > 3: warn and truncate
ValidateToppings ==
    /\ pc = "validate"
    /\ IF Len(topping_paths) > 3
       THEN /\ stdout' = Append(stdout, "warning")
            /\ topping_paths' = SubSeq(topping_paths, 1, 3)
       ELSE UNCHANGED <<stdout, topping_paths>>
    /\ pc' = "create_dish"
    /\ UNCHANGED <<args, i, final_image, pastes, opened, writes, exc,
                   exit_code, stderr, fs, fs0, calls, first_out>>

\* variant: the canvas is a module-level object, not created per call
EnterCreateDish_shared ==
    /\ pc = "create_dish"
    /\ pc' = "bowl"
    /\ UNCHANGED <<args, topping_paths, i, final_image, pastes, opened, writes,
                   exc, exit_code, stdout, stderr, fs, fs0, calls, first_out>>

\* entry of create_dish: the fresh canvas
EnterCreateDish ==
    /\ pc = "create_dish"
    /\ final_image' = NewCanvas
    /\ pc' = "bowl"
    /\ UNCHANGED <<args, topping_paths, i, pastes, opened, writes, exc,
                   exit_code, stdout, stderr, fs, fs0, calls, first_out>>

\* open, resize and paste one centred layer (the bowl or the noodles)
CentredLayer(name, path, next) ==
    /\ pc = name
    /\ opened' = Append(opened, [layer |-> name, idx |-> 0, path |-> path])
    /\ IF fs[path] = Absent
       THEN /\ exc' = "FileNotFoundError"
            /\ pc' = Raised
            /\ UNCHANGED <<final_image, pastes>>
       ELSE LET r == resize_and_center(fs[path], sizes[name])
            IN /\ final_image' = Paste(final_image, r.img, r.pos)
               /\ pastes' = Append(pastes, [layer |-> name, idx |-> 0,
                                            side |-> r.img.w, pos |-> r.pos])
               /\ pc' = next
               /\ UNCHANGED exc
    /\ UNCHANGED <<args, topping_paths, i, writes, exit_code, stdout,
                   stderr, fs, fs0, calls, first_out>>

LayerBowl == CentredLayer("bowl", bowl_path, "noodle")

LayerNoodle == CentredLayer("noodle", noodle_path, "topping")

\* variant: a topping that cannot be opened is skipped
LayerTopping_skip ==
    /\ pc = "topping"
    /\ i < Len(ToppingSlice(topping_paths))
    /\ LET path == ToppingSlice(topping_paths)[i + 1]
       IN /\ opened' = Append(opened, [layer |-> "topping", idx |-> i, path |-> path])
          /\ IF fs[path] = Absent
             THEN UNCHANGED <<final_image, pastes>>
             ELSE LET r == resize_and_center(fs[path], sizes["topping"])
                      topping_pos == ToppingPos(r.pos, i)
                  IN /\ final_image' = Paste(final_image, r.img, topping_pos)
                     /\ pastes' = Append(pastes, [layer |-> "topping", idx |-> i,
                                                  side |-> r.img.w, pos |-> topping_pos])
          /\ i' = i + 1
          /\ UNCHANGED <<pc, exc>>
    /\ UNCHANGED <<args, topping_paths, writes, exit_code, stdout, stderr,
                   fs, fs0, calls, first_out>>

\* one iteration of: for i, topping_path in enumerate(topping_paths[:3])
LayerTopping ==
    /\ pc = "topping"
    /\ i < Len(ToppingSlice(topping_paths))
    /\ LET path == ToppingSlice(topping_paths)[i + 1]
       IN /\ opened' = Append(opened, [layer |-> "topping", idx |-> i, path |-> path])
          /\ IF fs[path] = Absent
             THEN /\ exc' = "FileNotFoundError"
                  /\ pc' = Raised
                  /\ UNCHANGED <<final_image, pastes, i>>
             ELSE LET r == resize_and_center(fs[path], sizes["topping"])
                      topping_pos == ToppingPos(r.pos, i)
                  IN /\ final_image' = Paste(final_image, r.img, topping_pos)
                     /\ pastes' = Append(pastes, [layer |-> "topping", idx |-> i,
                                                  side |-> r.img.w, pos |-> topping_pos])
                     /\ i' = i + 1
                     /\ UNCHANGED <<pc, exc>>
    /\ UNCHANGED <<args, topping_paths, writes, exit_code, stdout, stderr,
                   fs, fs0, calls, first_out>>

\* variant: the save sits inside the toppings loop
SaveImage_inloop ==
    /\ pc = "topping"
    /\ i <= Len(ToppingSlice(topping_paths))
    /\ Len(writes) <= i
    /\ IF Writable(output_path)
       THEN /\ fs' = [fs EXCEPT ![output_path] = final_image]
            /\ writes' = Append(writes, output_path)
            /\ stdout' = Append(stdout, "success")
            /\ pc' = IF i = Len(ToppingSlice(topping_paths)) THEN "returned" ELSE pc
            /\ UNCHANGED exc
       ELSE /\ exc' = "PermissionError"
            /\ pc' = Raised
            /\ UNCHANGED <<fs, writes, stdout>>
    /\ UNCHANGED <<args, topping_paths, i, final_image, pastes, opened,
                   exit_code, stderr, fs0, calls, first_out>>

\* variant: the default file name is saved to, output_path is ignored
SaveImage_default ==
    /\ pc = "topping"
    /\ i = Len(ToppingSlice(topping_paths))
    /\ fs' = [fs EXCEPT !["out.png"] = final_image]
    /\ writes' = Append(writes, "out.png")
    /\ stdout' = Append(stdout, "success")
    /\ pc' = "returned"
    /\ UNCHANGED <<args, topping_paths, i, final_image, pastes, opened, exc,
                   exit_code, stderr, fs0, calls, first_out>>

\* final_image.save(output_path, 'PNG'); print(...); return output_path
SaveImage ==
    /\ pc = "topping"
    /\ i = Len(ToppingSlice(topping_paths))
    /\ IF Writable(output_path)
       THEN /\ fs' = [fs EXCEPT ![output_path] = final_image]
            /\ writes' = Append(writes, output_path)
            /\ stdout' = Append(stdout, "success")
            /\ pc' = "returned"
            /\ UNCHANGED exc
       ELSE /\ exc' = "PermissionError"
            /\ pc' = Raised
            /\ UNCHANGED <<fs, writes, stdout>>
    /\ UNCHANGED <<args, topping_paths, i, final_image, pastes, opened,
                   exit_code, stderr, fs0, calls, first_out>>

\* print an error message on the stream main uses for errors, then exit
ReportAndExit(msg) ==
    /\ stdout' = IF ErrorStream = "stdout" THEN Append(stdout, msg) ELSE stdout
    /\ stderr' = IF ErrorStream = "stderr" THEN Append(stderr, msg) ELSE stderr
    /\ exit_code' = <<ErrorExitCode>>
    /\ pc' = "exited"
    /\ UNCHANGED <<args, topping_paths, i, final_image, pastes, opened,
                   writes, exc, fs, fs0, calls, first_out>>

\* except FileNotFoundError as e
HandleFileNotFound ==
    /\ pc = "except"
    /\ exc = "FileNotFoundError"
    /\ ReportAndExit("error_not_found")

\* variant: the generic handler prints but forgets sys.exit(1)
HandleException_noexit ==
    /\ pc = "except"
    /\ exc # "FileNotFoundError"
    /\ stdout' = Append(stdout, "error")
    /\ exit_code' = <<0>>
    /\ pc' = "exited"
    /\ UNCHANGED <<args, topping_paths, i, final_image, pastes, opened,
                   writes, exc, stderr, fs, fs0, calls, first_out>>

\* except Exception as e
HandleException ==
    /\ pc = "except"
    /\ exc # "FileNotFoundError"
    /\ ReportAndExit("error")

\* create_dish returned inside the try block: main falls off its end
MainReturn ==
    /\ pc = "returned"
    /\ mode = "cli"
    /\ exit_code' = <<0>>
    /\ pc' = "exited"
    /\ UNCHANGED <<args, topping_paths, i, final_image, pastes, opened,
                   writes, exc, stdout, stderr, fs, fs0, calls, first_out>>

\* the invocation is over
Finished ==
    \/ pc = "exited"
    \/ pc = "propagated"
    \/ pc = "returned" /\ mode = "direct"

\* the same call (or command line) is issued again
Reinvoke ==
    /\ Finished
    /\ calls < MaxCalls
    /\ calls' = calls + 1
    /\ first_out' = IF calls = 1 THEN fs[output_path] ELSE first_out
    /\ fs0' = fs
    /\ topping_paths' = argv_toppings
    /\ pc' = IF mode = "cli" THEN "parse_args" ELSE "create_dish"
    /\ i' = 0
    /\ pastes' = <<>>
    /\ opened' = <<>>
    /\ writes' = <<>>
    /\ exc' = "none"
    /\ exit_code' = <<>>
    /\ stdout' = <<>>
    /\ stderr' = <<>>
    /\ UNCHANGED <<args, fs, final_image>>

Next ==
    \/ ParseArgs
    \/ ValidateToppings
    \/ EnterCreateDish
    \/ LayerBowl
    \/ LayerNoodle
    \/ LayerTopping
    \/ SaveImage
    \/ HandleFileNotFound
    \/ HandleException
    \/ MainReturn
    \/ Reinvoke

Spec == Init /\ [][Next]_vars

\* ------------------------------------------------------------------ claims
Range(s) == {s[j] : j \in 1..Len(s)}

\* position of a layer in the stack: bowl, noodle, topping 0, 1, 2
Rank(p) == CASE p.layer = "bowl"   -> 0
             [] p.layer = "noodle" -> 1
             [] OTHER              -> 2 + p.idx

\* the path the j-th layer of the stack comes from
LayerPath(j) == CASE j = 1 -> bowl_path
                  [] j = 2 -> noodle_path
                  [] OTHER -> argv_toppings[j - 2]

\* number of layers of a complete stack
FullStack == 2 + Min(3, Len(argv_toppings))

\* the paths create_dish opens when nothing fails
InputPaths ==
    {bowl_path, noodle_path} \cup
    {argv_toppings[j] : j \in 1..Min(3, Len(argv_toppings))}

\* the canvas of this invocation exists
CanvasLive == pc \notin {"parse_args", "validate", "create_dish"}

\* create_dish has been entered by this invocation
DishCalled == CanvasLive /\ opened # <<>>

\* create_dish returned normally in this invocation
DishReturned == exc = "none" /\ "success" \in Range(stdout)

\* C1: the j-th paste of an invocation is the j-th layer of the stack
\* bowl, noodle, toppings in input order, taken from that layer's path, and
\* the canvas is saved only once the whole stack has been pasted.
C1_PasteOrder ==
    /\ CanvasLive => Len(final_image.layers) = Len(pastes)
    /\ Len(pastes) <= FullStack
    /\ \A j \in 1..Len(pastes) :
          /\ Rank(pastes[j]) = j - 1
          /\ CanvasLive => final_image.layers[j].img.of = fs0[LayerPath(j)]
    /\ writes # <<>> => Len(pastes) = FullStack

C1_Witness ==
    /\ pc = "returned"
    /\ Len(pastes) = 5
    /\ writes = <<output_path>>
    /\ argv_toppings[1] # argv_toppings[2]

\* C2: when a path create_dish opens is missing, the call ends with
\* FileNotFoundError at its caller, and the file at output_path is as it
\* was before the call, whichever layer failed.
C2_MissingInput ==
    /\ (\E j \in 1..Len(opened) : fs0[opened[j].path] = Absent) =>
          /\ exc = "FileNotFoundError"
          /\ mode = "direct" => pc = "propagated"
          /\ pc \in {"propagated", "except", "exited"}
          /\ writes = <<>>
          /\ fs[output_path] = fs0[output_path]
    /\ (Finished /\ DishCalled /\ \E p \in InputPaths : fs0[p] = Absent) =>
          /\ exc = "FileNotFoundError"
          /\ writes = <<>>
          /\ fs[output_path] = fs0[output_path]

C2_Witness ==
    /\ pc = "propagated"
    /\ exc = "FileNotFoundError"
    /\ Len(pastes) = 4
    /\ fs0[output_path] # Absent
    /\ fs[output_path] = fs0[output_path]

\* the canvas obtained by pasting bowl, noodle and every topping of tps
RECURSIVE PasteToppings(_, _, _)
PasteToppings(canvas, tps, k) ==
    IF k = Len(tps) THEN canvas
    ELSE LET r == resize_and_center(fs0[tps[k + 1]], sizes["topping"])
         IN PasteToppings(Paste(canvas, r.img, ToppingPos(r.pos, k)), tps, k + 1)

CompositeOf(b, n, tps) ==
    LET rb == resize_and_center(fs0[b], sizes["bowl"])
        rn == resize_and_center(fs0[n], sizes["noodle"])
    IN PasteToppings(Paste(Paste(NewCanvas, rb.img, rb.pos), rn.img, rn.pos), tps, 0)

\* C3: given more than 3 toppings, only indexes 0..2 are opened, each
\* from its own path, and the canvas of a successful call is the composite
\* of the first 3 toppings alone; directly or through main().
C3_FirstThreeOnly ==
    Len(argv_toppings) > 3 =>
       /\ \A j \in 1..Len(opened) :
             opened[j].layer = "topping" =>
                /\ opened[j].idx < 3
                /\ opened[j].path = argv_toppings[opened[j].idx + 1]
       /\ Cardinality({j \in 1..Len(opened) : opened[j].layer = "topping"}) <= 3
       /\ DishReturned =>
             final_image = CompositeOf(bowl_path, noodle_path, SubSeq(argv_toppings, 1, 3))

C3_Witness ==
    /\ Len(argv_toppings) = 4
    /\ mode = "direct"
    /\ DishReturned
    /\ Len(opened) = 5
    /\ argv_toppings[4] # argv_toppings[3]

\* C4: whatever the dimensions of the image, resize_and_center gives the
\* bowl side 819 at (102, 102), the noodle side 614 at (205, 205) and a
\* topping side 409 at base (307, 307); the pasted bowl and noodle have
\* exactly these sides and positions.
C4_SizesAndPositions ==
    /\ \A p \in Paths :
          fs[p] # Absent =>
             /\ resize_and_center(fs[p], sizes["bowl"]) =
                   [img |-> [of |-> fs[p], w |-> 819, h |-> 819], pos |-> <<102, 102>>]
             /\ resize_and_center(fs[p], sizes["noodle"]) =
                   [img |-> [of |-> fs[p], w |-> 614, h |-> 614], pos |-> <<205, 205>>]
             /\ resize_and_center(fs[p], sizes["topping"]) =
                   [img |-> [of |-> fs[p], w |-> 409, h |-> 409], pos |-> <<307, 307>>]
    /\ \A j \in 1..Len(pastes) :
          /\ pastes[j].layer = "bowl" =>
                pastes[j].side = 819 /\ pastes[j].pos = <<102, 102>>
          /\ pastes[j].layer = "noodle" =>
                pastes[j].side = 614 /\ pastes[j].pos = <<205, 205>>
          /\ pastes[j].layer = "topping" => pastes[j].side = 409
          /\ CanvasLive =>
                /\ final_image.layers[j].img.w = pastes[j].side
                /\ final_image.layers[j].img.h = pastes[j].side

C4_Witness ==
    /\ Len(pastes) >= 3
    /\ fs0[bowl_path].w = 512
    /\ fs0[noodle_path].w = 2048
    /\ fs0[noodle_path].h = 1000
    /\ \E p \in Paths : fs[p].src = "canvas"

\* C5: topping i is pasted at (307, 277), (267, 332), (347, 332) for
\* i = 0, 1, 2, whatever the number of toppings supplied.
C5_ToppingPositions ==
    \A j \in 1..Len(pastes) :
       pastes[j].layer = "topping" =>
          /\ pastes[j].idx \in 0..2
          /\ pastes[j].pos = << <<307, 277>>, <<267, 332>>, <<347, 332>> >>[pastes[j].idx + 1]
          /\ CanvasLive => final_image.layers[j].pos = pastes[j].pos

C5_Witness ==
    /\ Len(pastes) = 5
    /\ pastes[5].pos = <<347, 332>>
    /\ Len(argv_toppings) = 3

\* C6: main() exits with code 0 exactly when create_dish returned
\* normally, with code 1 when create_dish raised anything (a failed save
\* included), and no exception of create_dish leaves main().
C6_ExitCodes ==
    mode = "cli" =>
       /\ pc # "propagated"
       /\ pc = "exited" =>
             /\ Len(exit_code) = 1
             /\ exit_code = <<0>> <=> DishReturned
             /\ exc # "none" => exit_code = <<1>>
       /\ pc # "exited" => exit_code = <<>>

C6_Witness ==
    /\ mode = "cli"
    /\ pc = "exited"
    /\ exc = "PermissionError"
    /\ exit_code = <<1>>

ErrorMessages == {"error_not_found", "error"}

\* C7 as stated: on exit code 1 after an exception of create_dish the
\* error message is on stderr and not on stdout.
C7_Original ==
    (pc = "exited" /\ exit_code = <<1>>) =>
       /\ Range(stderr) \cap ErrorMessages # {}
       /\ Range(stdout) \cap ErrorMessages = {}

\* C7 amended: on exit code 1 after an exception of create_dish exactly
\* one error message has been printed, on stdout, and stderr is empty.
C7_MessageOnStdout ==
    (pc = "exited" /\ exit_code = <<1>>) =>
       /\ exc # "none"
       /\ stdout # <<>>
       /\ stdout[Len(stdout)] =
             (IF exc = "FileNotFoundError" THEN "error_not_found" ELSE "error")
       /\ Cardinality({j \in 1..Len(stdout) : stdout[j] \in ErrorMessages}) = 1
       /\ stderr = <<>>

C7_Witness ==
    /\ pc = "exited"
    /\ exit_code = <<1>>
    /\ exc = "FileNotFoundError"
    /\ stdout = <<"warning", "error_not_found">>

\* the write discipline common to both readings of C8
OneWrite ==
    /\ Len(writes) <= 1
    /\ Range(writes) \subseteq {output_path}
    /\ (DishCalled /\ DishReturned) => writes = <<output_path>>
    /\ writes = <<>> => fs = fs0

\* C8 as stated: at most one write, to output_path, exactly one on
\* success, and every input file has the contents it had before the call.
C8_Original ==
    /\ OneWrite
    /\ \A j \in 1..Len(opened) : fs[opened[j].path] = fs0[opened[j].path]

\* C8 amended: at most one write, to output_path, exactly one on success,
\* and every file at a path other than output_path, the input files at
\* such paths included, has the contents it had before the call.
C8_OnlyOutputWritten ==
    /\ OneWrite
    /\ \A p \in Paths \ {output_path} : fs[p] = fs0[p]
    /\ \A j \in 1..Len(opened) :
          opened[j].path # output_path => fs[opened[j].path] = fs0[opened[j].path]

C8_Witness ==
    /\ DishReturned
    /\ writes = <<output_path>>
    /\ output_path = "a.png"
    /\ output_path \notin InputPaths
    /\ fs[output_path] # fs0[output_path]
    /\ Len(opened) = 5

\* C9 as stated: for any paths, after the second and every later
\* invocation the output file has the contents it had after the first.
C9_Original ==
    (Finished /\ calls >= 2) => fs[output_path] = first_out

\* C9 amended: when output_path is none of the input paths that
\* create_dish opens, after the second and every later invocation the
\* output file has the contents it had after the first.
C9_RepeatSameOutput ==
    (Finished /\ calls >= 2 /\ output_path \notin InputPaths) =>
       fs[output_path] = first_out

C9_Witness ==
    /\ Finished
    /\ calls >= 2
    /\ DishReturned
    /\ output_path \notin InputPaths
    /\ first_out.src = "canvas"
    /\ Len(first_out.layers) >= 3
    /\ fs[output_path] = first_out

\* C10: every pasted rectangle lies inside the canvas, and the canvas
\* is 1024 x 1024 after every paste.
C10_InsideCanvas ==
    /\ final_image.w = 1024
    /\ final_image.h = 1024
    /\ \A j \in 1..Len(pastes) :
          LET x == pastes[j].pos[1]
              y == pastes[j].pos[2]
              side == pastes[j].side
          IN /\ 0 <= x
             /\ 0 <= y
             /\ x + side <= 1024
             /\ y + side <= 1024

C10_Witness ==
    /\ Len(pastes) = 5
    /\ pastes[3].pos[2] = 277
    /\ pastes[5].pos[1] + pastes[5].side = 756

====
